---- MODULE Spec2Model ----
(***************************************************************************)
(* Model of small.py: the small_caps character substitution and the two    *)
(* Tk callbacks convertir and copiar bound to the "Convertir" and "Copiar" *)
(* buttons.                                                                *)
(*                                                                         *)
(* A character is its Unicode code point; a Python str is a sequence of    *)
(* code points.                                                            *)
(***************************************************************************)
EXTENDS Naturals, Integers, Sequences, FiniteSets, TLC

VARIABLES
    entrada,    \* tk.StringVar bound to the input Entry            (small.py:30)
    resultado,  \* tk.StringVar bound to the read-only result Entry (small.py:31)
    clipboard,  \* contents of the host clipboard reached through root
    excepcion,  \* the last callback ended by raising (Tk reports it on stderr)
    last,       \* history: the kind of the last user action
    rep,        \* history: the last action repeated the kind of the one before
    convIn,     \* history: {input value read by the most recent convertir}
    copyOut,    \* history: {output value read by the most recent completed copiar}
    copyIn      \* history: value of convIn when that copiar ran

vars == <<entrada, resultado, clipboard, excepcion, last, rep, convIn, copyOut, copyIn>>

\* The program's own state, without the history variables.
prog == <<entrada, resultado, clipboard>>

-----------------------------------------------------------------------------
(* Bounds *)

\* Longest input of the pure-function specification SpecFn.
MaxLenFn == 2

\* Longest input typed into the window in Spec and SpecFail.
MaxLen == 2

-----------------------------------------------------------------------------
(* Characters *)

LowerAZ == 97..122            \* 'a'..'z'
UpperAZ == 65..90             \* 'A'..'Z'
AsciiLetters == LowerAZ \cup UpperAZ

\* Non-letters of the modelled alphabet:
\*   ' ' '!' '1' '@' '[' '`' '{'   ASCII neighbours of the letter ranges
\*   U+00C9 E-acute capital, U+00E9 e-acute small
\*   U+0130 I with dot above  (lower() is the two characters 'i' U+0307)
\*   U+017F long s            (lower() is itself; only casefold() gives 's')
\*   U+01EA O with ogonek     (lower() is U+01EB, the glyph stored under 'q')
\*   U+1D00 small capital A   (the glyph stored under 'a')
\*   U+212A KELVIN SIGN       (lower() is 'k')
\*   U+212B ANGSTROM SIGN     (lower() is U+00E5)
Others == {32, 33, 49, 64, 91, 96, 123, 201, 233, 304, 383, 490, 7424, 8490, 8491}

Chars == AsciiLetters \cup Others

\* The alphabet typed into the window: 'a', 'A', '1'.
GuiChars == {97, 65, 49}

StrOver(S, n) == UNION {[1..k -> S] : k \in 0..n}

TextosFn == StrOver(Chars, MaxLenFn)
Textos == StrOver(GuiChars, MaxLen)

\* What another application may have left on the clipboard before the first copy.
ClipboardsIniciales == StrOver(GuiChars, 1)

-----------------------------------------------------------------------------
(* small_caps, small.py:4-13 *)

\* The values of the table in key order a..z (small.py:6-11).
Glyphs ==
    << 7424,  665, 7428, 7429, 7431,     \* a b c d e
      42800,  610,  668,  618, 7434,     \* f g h i j
       7435,  671, 7437,  628, 7439,     \* k l m n o
       7448,  491,  640,  115, 7451,     \* p q r s t
       7452, 7456, 7457,  120,  655,     \* u v w x y
       7458 >>                           \* z

\* A table whose entry for 'q' is the plain letter 'o', itself a key.
mapaPlainQ == [k \in LowerAZ |-> IF k = 113 THEN <<111>> ELSE <<Glyphs[k - 96]>>]

\* A table whose entry for 'q' is the decomposed form, 'o' followed by
\* U+0328 COMBINING OGONEK: two characters.
mapaDecomposedQ ==
    [k \in LowerAZ |-> IF k = 113 THEN <<111, 808>> ELSE <<Glyphs[k - 96]>>]

\* mapa: one-character key -> one-character str.
mapa == [k \in LowerAZ |-> <<Glyphs[k - 96]>>]

\* str.lower() of a one-character str, as CPython computes it on the
\* characters of Chars and of the table's values: a str, not always of length 1.
Lower(c) ==
    CASE c \in UpperAZ              -> <<c + 32>>
      [] c \in 192..222 /\ c # 215  -> <<c + 32>>     \* Latin-1 capitals
      [] c = 304                    -> <<105, 775>>   \* U+0130 -> 'i' U+0307
      [] c = 490                    -> <<491>>        \* U+01EA -> U+01EB
      [] c = 8490                   -> <<107>>        \* KELVIN SIGN -> 'k'
      [] c = 8491                   -> <<229>>        \* ANGSTROM SIGN -> U+00E5
      [] OTHER                      -> <<c>>

\* dict.get(key, default) on mapa; the key is a str.
MapaGet(key, default) ==
    IF Len(key) = 1 /\ key[1] \in DOMAIN mapa THEN mapa[key[1]] ELSE default

\* Looks the character up as typed, without lowercasing it.
EmitNoLower(c) == MapaGet(<<c>>, <<c>>)

\* Falls back to the lowercased character instead of the original.
EmitLowerDefault(c) == MapaGet(Lower(c), Lower(c))

\* The generator's element for character c: mapa.get(c.lower(), c).
Emit(c) == MapaGet(Lower(c), <<c>>)

\* "".join(...)
RECURSIVE Join(_)
Join(parts) == IF parts = <<>> THEN <<>> ELSE Head(parts) \o Join(Tail(parts))

small_caps(texto) == Join([i \in 1..Len(texto) |-> Emit(texto[i])])

-----------------------------------------------------------------------------
(* The clipboard calls of copiar *)

\* clipboard_clear() that leaves the old contents in place.
clipboard_keep(cb) == cb

\* root.clipboard_clear()
clipboard_clear(cb) == <<>>

\* root.clipboard_append(s)
clipboard_append(cb, s) == cb \o s

-----------------------------------------------------------------------------
(* Actions *)

\* An edit that also refreshes the result, as a live preview would.
EditarEnVivo(s) ==
    /\ entrada' = s
    /\ resultado' = small_caps(s)
    /\ last' = "editar"
    /\ rep' = (last = "editar")
    /\ UNCHANGED <<clipboard, excepcion, convIn, copyOut, copyIn>>

\* The user changes the text of the input Entry to s (small.py:35).
Editar(s) ==
    /\ entrada' = s
    /\ last' = "editar"
    /\ rep' = (last = "editar")
    /\ UNCHANGED <<resultado, clipboard, excepcion, convIn, copyOut, copyIn>>

\* A convertir that also empties the input field.
ConvertirLimpia ==
    /\ resultado' = small_caps(entrada)
    /\ entrada' = <<>>
    /\ excepcion' = FALSE
    /\ last' = "convertir"
    /\ rep' = (last = "convertir")
    /\ convIn' = {entrada}
    /\ UNCHANGED <<clipboard, copyOut, copyIn>>

\* A convertir that adds the conversion to what the result field holds.
ConvertirAcumula ==
    /\ resultado' = resultado \o small_caps(entrada)
    /\ excepcion' = FALSE
    /\ last' = "convertir"
    /\ rep' = (last = "convertir")
    /\ convIn' = {entrada}
    /\ UNCHANGED <<entrada, clipboard, copyOut, copyIn>>

\* convertir(), small.py:15-17.
Convertir ==
    /\ resultado' = small_caps(entrada)
    /\ excepcion' = FALSE
    /\ last' = "convertir"
    /\ rep' = (last = "convertir")
    /\ convIn' = {entrada}
    /\ UNCHANGED <<entrada, clipboard, copyOut, copyIn>>

\* A copiar that converts the input itself instead of reading the result.
CopiarDesdeEntrada(falla) ==
    /\ clipboard' = clipboard_append(clipboard_clear(clipboard), small_caps(entrada))
    /\ excepcion' = FALSE
    /\ last' = "copiar"
    /\ rep' = (last = "copiar")
    /\ copyOut' = {resultado}
    /\ copyIn' = convIn
    /\ UNCHANGED <<entrada, resultado, convIn>>

\* copiar(), small.py:19-21. falla names the clipboard call that raises
\* TclError, "no" when neither does. Nothing in copiar catches the exception:
\* a failing clipboard_clear leaves everything as it was, a failing
\* clipboard_append leaves the clipboard as clipboard_clear left it, and
\* either way the exception leaves the callback.
Copiar(falla) ==
    /\ clipboard' =
         CASE falla = "clear"  -> clipboard
           [] falla = "append" -> clipboard_clear(clipboard)
           [] OTHER            -> clipboard_append(clipboard_clear(clipboard), resultado)
    /\ excepcion' = (falla # "no")
    /\ last' = IF falla = "no" THEN "copiar" ELSE "copiar_falla"
    /\ rep' = (last = last')
    /\ copyOut' = IF falla = "no" THEN {resultado} ELSE copyOut
    /\ copyIn' = IF falla = "no" THEN convIn ELSE copyIn
    /\ UNCHANGED <<entrada, resultado, convIn>>

-----------------------------------------------------------------------------
(* Specifications *)

\* State after the module's top level has run (small.py:24-44): both
\* StringVars are empty; the clipboard holds what it held before.
Init ==
    /\ entrada = <<>>
    /\ resultado = <<>>
    /\ clipboard \in ClipboardsIniciales
    /\ excepcion = FALSE
    /\ last = "inicio"
    /\ rep = FALSE
    /\ convIn = {}
    /\ copyOut = {}
    /\ copyIn = {}

\* The window's event loop with a clipboard that always accepts the write.
Next ==
    \/ \E s \in Textos : Editar(s)
    \/ Convertir
    \/ Copiar("no")

Spec == Init /\ [][Next]_vars

\* The same loop with a clipboard whose calls may raise.
NextFail ==
    \/ \E s \in Textos : Editar(s)
    \/ Convertir
    \/ \E f \in {"no", "clear", "append"} : Copiar(f)

SpecFail == Init /\ [][NextFail]_vars

\* small_caps on its own: any text over Chars is in the input field, it is
\* converted, and the result may be fed back into the input field.
InitFn ==
    /\ entrada \in TextosFn
    /\ resultado = <<>>
    /\ clipboard = <<>>
    /\ excepcion = FALSE
    /\ last = "inicio"
    /\ rep = FALSE
    /\ convIn = {}
    /\ copyOut = {}
    /\ copyIn = {}

NextFn ==
    \/ Convertir
    \/ Editar(resultado)

SpecFn == InitFn /\ [][NextFn]_vars

-----------------------------------------------------------------------------
(* Claims about small_caps, checked under SpecFn *)

\* Lowercasing of an ASCII letter, stated apart from Lower.
AsciiLower(c) == IF c \in UpperAZ THEN c + 32 ELSE c

\* "Hello World" and the glyphs the table gives for it.
HelloWorld == <<72, 101, 108, 108, 111, 32, 87, 111, 114, 108, 100>>
HelloWorldCaps == <<668, 7431, 671, 671, 7439, 32, 7457, 7439, 640, 671, 7429>>

\* The state right after convertir ran on the text now in the input field.
Convertido == last = "convertir"

\* C1: for every ASCII letter c of either case, small_caps(c) is the table
\* entry stored under lowercase(c); 'S' gives 's' and 'X' gives 'x'; and
\* small_caps("Hello World") is the example's glyph string.
C1_LetterLookup ==
    /\ (Convertido /\ Len(entrada) = 1 /\ entrada[1] \in AsciiLetters)
          => /\ resultado = <<Glyphs[AsciiLower(entrada[1]) - 96]>>
             /\ (entrada[1] \in {83, 115} => resultado = <<115>>)
             /\ (entrada[1] \in {88, 120} => resultado = <<120>>)
    /\ (Convertido /\ entrada = <<>>) => small_caps(HelloWorld) = HelloWorldCaps

\* An uppercase letter other than S and X was converted to its glyph.
C1_Witness ==
    /\ Convertido
    /\ entrada = <<72>>
    /\ resultado = <<668>>

\* C2 as stated: every character outside a-z/A-Z, whatever its lowercase
\* form, is emitted unchanged.
C2_Original ==
    (Convertido /\ Len(entrada) = 1 /\ entrada[1] \notin AsciiLetters)
        => resultado = entrada

\* C2 as amended: every character whose lowercase form is not a single
\* letter a-z is emitted unchanged, in its original case; the KELVIN SIGN,
\* whose lowercase form is 'k', is emitted as the glyph stored under 'k'.
C2_PassThrough ==
    /\ (Convertido /\ Len(entrada) = 1
          /\ ~(Len(Lower(entrada[1])) = 1 /\ Lower(entrada[1])[1] \in LowerAZ))
          => resultado = entrada
    /\ (Convertido /\ entrada = <<8490>>) => resultado = <<7435>>

\* An accented capital, whose lowercase form differs from it, passed through.
C2_Witness ==
    /\ Convertido
    /\ entrada = <<201>>
    /\ resultado = <<201>>

\* C3: the output has as many characters as the input, the empty input
\* included, and its i-th character is the conversion of the i-th input
\* character alone.
C3_LengthAndPointwise ==
    Convertido =>
        /\ Len(resultado) = Len(entrada)
        /\ \A i \in 1..Len(entrada) : <<resultado[i]>> = small_caps(<<entrada[i]>>)

\* A two-character input whose first character lowercases to two characters.
C3_Witness ==
    /\ Convertido
    /\ entrada = <<304, 65>>
    /\ resultado = <<304, 7424>>

\* C9: small_caps is idempotent: converting a converted text gives it back.
C9_Idempotent ==
    Convertido => small_caps(resultado) = resultado

\* A result holding glyphs was fed back into the input and converted again.
C9_Witness ==
    /\ Convertido
    /\ rep = FALSE
    /\ entrada = <<7435, 115>>
    /\ resultado = entrada
    /\ convIn = {entrada}

-----------------------------------------------------------------------------
(* Claims about the window's actions, checked under Spec and SpecFail *)

\* C4: a copy leaves exactly the current output value on the clipboard,
\* whatever the clipboard held before: the old contents are replaced, never
\* appended to.
C4_CopyReplaces ==
    [][Copiar("no") => clipboard' = resultado]_vars

\* A non-empty result was copied twice in a row and lies on the clipboard once.
C4_Witness ==
    /\ last = "copiar"
    /\ rep
    /\ resultado = <<7424, 49>>
    /\ clipboard = resultado

\* C5: a convert sets the output field to small_caps of the input field's
\* value at that moment and leaves the input field and the clipboard alone.
C5_ConvertEffect ==
    [][Convertir => /\ resultado' = small_caps(entrada)
                    /\ entrada' = entrada
                    /\ clipboard' = clipboard]_vars

\* A convert ran on a non-empty input while the clipboard held something else.
C5_Witness ==
    /\ last = "convertir"
    /\ entrada = <<65, 49>>
    /\ resultado = <<7424, 49>>
    /\ clipboard = <<49>>

\* C6: only the convert action changes the output field; an edit or a copy
\* leaves it unchanged, and a copy leaves the input field unchanged too.
C6_OutputOnlyByConvert ==
    [][/\ (resultado' # resultado => Convertir)
       /\ ((\E s \in Textos : Editar(s)) => resultado' = resultado)
       /\ (Copiar("no") => (resultado' = resultado /\ entrada' = entrada))]_vars

\* The input was edited after a convert and the old result is still shown.
C6_Witness ==
    /\ last = "editar"
    /\ entrada = <<49>>
    /\ resultado = <<7424>>
    /\ convIn = {<<97>>}

\* C7: when a clipboard call fails during copiar, the action is a no-op:
\* the clipboard, the input field and the output field are exactly as they
\* were before it, also when clipboard_append fails after clipboard_clear
\* has run. (The claim adds that no error is surfaced; excepcion records
\* that the TclError leaves the callback as well.)
C7_FailureIsNoOp ==
    [][(\E f \in {"clear", "append"} : Copiar(f)) => prog' = prog]_vars

\* C8: convert twice in a row, or copy twice in a row, leaves the state the
\* first one left; and what either action writes is a function of the
\* current input and output values alone.
C8_Idempotent ==
    [][/\ ((last = "convertir" /\ Convertir) => prog' = prog)
       /\ ((last = "copiar" /\ Copiar("no")) => prog' = prog)
       /\ (Convertir => resultado' = small_caps(entrada))
       /\ (Copiar("no") => clipboard' = resultado)]_vars

\* Convert ran twice in a row on an input it changes.
C8_Witness ==
    /\ last = "convertir"
    /\ rep
    /\ entrada = <<97, 65>>
    /\ resultado = <<7424, 7424>>

\* C10: the output field is empty until the first convert and from then on
\* small_caps of the input at the most recent convert; once a copy has run,
\* the clipboard is the output value at the most recent copy, which is empty
\* when no convert came before it and otherwise small_caps of the input
\* converted last before that copy, never of a later, unconverted edit.
C10_StaleOutputAndClipboard ==
    /\ (convIn = {} => resultado = <<>>)
    /\ \A e \in convIn : resultado = small_caps(e)
    /\ \A o \in copyOut : clipboard = o
    /\ (copyOut # {} /\ copyIn = {} => clipboard = <<>>)
    /\ (copyOut # {} => \A e \in copyIn : clipboard = small_caps(e))

\* Three inputs in play: one converted and copied, a later one converted but
\* not copied, and a still later edit that was never converted.
C10_Witness ==
    /\ last = "editar"
    /\ copyIn = {<<49>>}
    /\ clipboard = <<49>>
    /\ convIn = {<<97>>}
    /\ resultado = <<7424>>
    /\ entrada = <<65, 65>>

====
